---- MODULE Spec2Model ----
(***************************************************************************)
(* Model of server.js: the /api/summarize-news handler, its file-backed    *)
(* summary cache (getCachedSummary / saveCachedSummary) and the news-card  *)
(* extractor (extractCleanNewsData).                                       *)
(*                                                                         *)
(* Conventions.                                                            *)
(*  - A JavaScript string is a sequence of one-token TLA+ strings.         *)
(*  - A JavaScript value that may be undefined is [def, s]: def = FALSE is *)
(*    undefined, otherwise s is the string.                                *)
(*  - Time is counted in whole hours; a Date is a natural number, an       *)
(*    Invalid Date is NaN. The server's local zone is taken to have a      *)
(*    fixed UTC offset, so setHours(getHours() + h) adds exactly h hours.  *)
(*  - The cache file is a sequence of tokens (its bytes); fs.writeFile is  *)
(*    open-with-truncate followed by a write at offset 0, as in Node.      *)
(***************************************************************************)
EXTENDS Integers, Sequences, FiniteSets, TLC

\* ------------------------------------------------------------------ bounds
\* Last hour the clock reaches.
MaxClock == 5

\* Most news cards in a document sent to the extractor on its own.
MaxCards == 3

\* ------------------------------------------------------- program constants
CACHE_TTL_HOURS == 4
SummaryCap == 300

\* The two request slots (two handler invocations may be in flight at once).
Reqs == {"r1", "r2"}

\* ------------------------------------------------------------- JS values
Undefined == [def |-> FALSE, s |-> <<>>]
Str(s) == [def |-> TRUE, s |-> s]

\* JS null, and the value JSON.parse / readFile failures are caught as.
Null == [type |-> "null"]

NaN == 0 - 1
IsNaN(d) == d < 0

\* Date.prototype.toISOString: the fixed-width ISO-8601 text of an instant.
toISOString(n) == "T" \o ToString(n)

\* new Date(v) for a value read from the parsed cache: an ISO string gives
\* its instant, undefined or any other text gives an Invalid Date.
NewDate(v) ==
    IF ~v.def \/ Len(v.s) # 1 THEN NaN
    ELSE IF \E n \in 0..MaxClock : toISOString(n) = v.s[1]
         THEN CHOOSE n \in 0..MaxClock : toISOString(n) = v.s[1]
         ELSE NaN

\* Mutant: setMinutes in place of setHours; h minutes are no whole hour.
setMinutesPlus(d, h) == d

\* expirationTime.setHours(expirationTime.getHours() + h)
setHoursPlus(d, h) == IF IsNaN(d) THEN NaN ELSE d + h

\* Mutant: now <= expirationTime.
DateLessOrEqual(a, b) == ~IsNaN(a) /\ ~IsNaN(b) /\ a <= b

\* Mutant: !(now >= expirationTime), true when a side is NaN.
DateNotGreaterOrEqual(a, b) == ~(~IsNaN(a) /\ ~IsNaN(b) /\ a >= b)

\* now < expirationTime (false whenever a side is NaN)
DateLess(a, b) == ~IsNaN(a) /\ ~IsNaN(b) /\ a < b


\* ------------------------------------------------------ the cache file text
\* Tokens of the JSON text JSON.stringify produces for the cache object.
LB == "{"
RB == "}"
Q  == "\""
CM == ","
KS == "\"summary\":"
KT == "\"timestamp\":"
KL == "\"ttl\":"
Digits == {ToString(n) : n \in 0..9}
NumOf(tok) == CHOOSE n \in 0..9 : ToString(n) = tok

\* const cache = { summary, timestamp: new Date().toISOString(), ttl }
CacheObject(summary, now) ==
    [type |-> "object", summary |-> summary,
     timestamp |-> Str(<<toISOString(now)>>), ttl |-> CACHE_TTL_HOURS]

\* JSON.stringify(cache): a member whose value is undefined is left out.
JSONstringify(c) ==
    <<LB>>
    \o (IF c.summary.def THEN <<KS, Q>> \o c.summary.s \o <<Q, CM>> ELSE <<>>)
    \o <<KT, Q>> \o c.timestamp.s \o <<Q, CM>>
    \o <<KL, ToString(c.ttl), RB>>

SyntaxError == [type |-> "SyntaxError"]

\* A parsed JSON number: reading any property of it gives undefined.
JSNumber == [type |-> "number", summary |-> Undefined, timestamp |-> Undefined,
             ttl |-> 0 - 1]

\* Index of the quote closing the string that opens at f[i]; 0 if none.
StrEnd(f, i) ==
    IF i <= Len(f) /\ f[i] = Q /\ \E j \in (i+1)..Len(f) : f[j] = Q
    THEN CHOOSE j \in (i+1)..Len(f) :
            f[j] = Q /\ \A k \in (i+1)..(j-1) : f[k] # Q
    ELSE 0

\* One optional member "key": value of the object being parsed. st is the
\* parser state [ok, p, first, summary, timestamp, ttl]; p is the cursor.
ParseMember(f, st, key) ==
    LET k == IF st.first THEN st.p ELSE st.p + 1
        here == st.ok /\ k <= Len(f) /\ f[k] = key
                       /\ (st.first \/ f[st.p] = CM)
    IN  IF ~here THEN st
        ELSE IF key = KL
        THEN IF k + 1 <= Len(f) /\ f[k+1] \in Digits
             THEN [st EXCEPT !.p = k + 2, !.first = FALSE, !.ttl = NumOf(f[k+1])]
             ELSE [st EXCEPT !.ok = FALSE]
        ELSE LET e == StrEnd(f, k + 1)
                 v == Str(SubSeq(f, k + 2, e - 1))
             IN  IF e = 0 THEN [st EXCEPT !.ok = FALSE]
                 ELSE IF key = KS
                 THEN [st EXCEPT !.p = e + 1, !.first = FALSE, !.summary = v]
                 ELSE [st EXCEPT !.p = e + 1, !.first = FALSE, !.timestamp = v]

\* JSON.parse(data) on the texts the model can hold: null, a number, or an
\* object with optional summary, timestamp and ttl members; anything else,
\* in particular the empty text and text after the closing brace, throws.
JSONparse(f) ==
    IF f = <<"null">> THEN Null
    ELSE IF Len(f) = 1 /\ f[1] \in Digits THEN JSNumber
    ELSE IF Len(f) < 2 \/ f[1] # LB THEN SyntaxError
    ELSE LET s0 == [ok |-> TRUE, p |-> 2, first |-> TRUE, summary |-> Undefined,
                    timestamp |-> Undefined, ttl |-> 0 - 1]
             s3 == ParseMember(f, ParseMember(f, ParseMember(f, s0, KS), KT), KL)
         IN  IF s3.ok /\ s3.p = Len(f) /\ f[s3.p] = RB
             THEN [type |-> "object", summary |-> s3.summary,
                   timestamp |-> s3.timestamp, ttl |-> s3.ttl]
             ELSE SyntaxError

\* ------------------------------------------------------------ file system
\* The state of CACHE_FILE: access = FALSE when the path rejects open (for
\* reading and for writing alike: EACCES, EISDIR); exists; data, its text.
NoFile == [access |-> TRUE, exists |-> FALSE, data |-> <<>>]
FileOf(data) == [access |-> TRUE, exists |-> TRUE, data |-> data]

\* fs.readFile(CACHE_FILE, 'utf8'): the text, or a rejection.
ReadFails(f) == ~f.access \/ ~f.exists

\* Mutant: open without truncation (flag 'r+' on an existing file).
OpenKeepsText(f) == [f EXCEPT !.exists = TRUE]

\* open(CACHE_FILE, 'w'): creates or truncates.
OpenTrunc(f) == [f EXCEPT !.exists = TRUE, !.data = <<>>]

\* write(fd, buffer) at the descriptor's offset 0: the first Len(d) tokens
\* are replaced, whatever lies beyond them stays.
WriteAtZero(f, d) ==
    [f EXCEPT !.data = d \o SubSeq(f.data, Len(d) + 1, Len(f.data))]

\* ------------------------------------------------------- getCachedSummary
\* The record when it is still valid at `now`, otherwise null; every throw
\* inside the try block (readFile, JSON.parse, cache.timestamp of null) is
\* swallowed by the catch.
getCachedSummary(f, now) ==
    IF ReadFails(f) THEN Null
    ELSE LET cache == JSONparse(f.data)
         IN  IF cache.type = "SyntaxError" THEN Null
             ELSE IF cache.type = "null" THEN Null
             ELSE LET expirationTime ==
                          setHoursPlus(NewDate(cache.timestamp), CACHE_TTL_HOURS)
                  IN  IF DateLess(now, expirationTime) THEN cache ELSE Null

\* -------------------------------------------------- extractCleanNewsData
\* What cheerio yields for one .news-card element: title, the text of its
\* 'h3 a' ("" when there is none); href, that link's attribute; summary,
\* the text of its p.summary ("" when there is none).
Card(title, href, summary) == [title |-> title, href |-> href, summary |-> summary]

\* req.body.htmlContent: undefined, or a document given by its news cards.
HtmlUndefined == [def |-> FALSE, cards |-> <<>>]
Html(cards) == [def |-> TRUE, cards |-> cards]

NL == "\n"
SP == " "
INDENT == "        "
IsSpace(c) == c = SP \/ c = NL

RECURSIVE TrimStart(_)
TrimStart(s) == IF s # <<>> /\ IsSpace(Head(s)) THEN TrimStart(Tail(s)) ELSE s
RECURSIVE TrimEnd(_)
TrimEnd(s) ==
    IF s # <<>> /\ IsSpace(s[Len(s)]) THEN TrimEnd(SubSeq(s, 1, Len(s) - 1)) ELSE s
\* String.prototype.trim
trim(s) == TrimEnd(TrimStart(s))

\* Mutant: the summary is not truncated.
substringAll(s, n) == s

\* String.prototype.substring(0, n)
substring0(s, n) == SubSeq(s, 1, IF Len(s) < n THEN Len(s) ELSE n)

\* Mutant: if (title), the summary is not looked at.
QualifiesByTitle(card) == trim(card.title) # <<>>

\* if (title && summary): both non-empty after trimming.
Qualifies(card) == trim(card.title) # <<>> /\ trim(card.summary) # <<>>

\* The articles array after the .each loop: one entry per qualifying card,
\* in document order.
RECURSIVE Articles(_)
Articles(cards) ==
    IF cards = <<>> THEN <<>>
    ELSE LET el == Head(cards)
             art == [title |-> trim(el.title),
                     url |-> IF el.href.def /\ el.href.s # <<>> THEN el.href.s ELSE <<"#">>,
                     summary |-> trim(el.summary)]
         IN  (IF Qualifies(el) THEN <<art>> ELSE <<>>) \o Articles(Tail(cards))

\* The template literal of one article (index is 0-based).
ArticleBlock(art, index) ==
    <<"[ARTICLE ", ToString(index + 1), "]", NL, INDENT, "Title: ">> \o art.title
    \o <<NL, INDENT, "URL: ">> \o art.url
    \o <<NL, INDENT, "Summary: ">> \o substring0(art.summary, SummaryCap)
    \o <<NL, INDENT, "-", "-", "-">>

\* articles.map(...).join('\n'), from article number i on.
RECURSIVE JoinBlocks(_, _)
JoinBlocks(arts, i) ==
    IF i > Len(arts) THEN <<>>
    ELSE ArticleBlock(arts[i], i - 1)
         \o (IF i < Len(arts) THEN <<NL>> \o JoinBlocks(arts, i + 1) ELSE <<>>)

\* extractCleanNewsData(htmlContent) for a string htmlContent.
extractCleanNewsData(html) == JoinBlocks(Articles(html.cards), 1)

\* The separator of cleanNewsData.split('\n---'): a line feed directly
\* followed by three dashes.
SplitSeparator == <<NL, "-", "-", "-">>

\* s.split(sep).length: one more than the number of places where sep
\* occurs in s (two occurrences of this separator cannot overlap, each
\* starts with the only line feed it holds).
SplitLength(s, sep) ==
    1 + Cardinality({i \in 1..Len(s) :
                        /\ i + Len(sep) - 1 <= Len(s)
                        /\ SubSeq(s, i, i + Len(sep) - 1) = sep})

\* The article count the prompt template embeds:
\* ${cleanNewsData.split('\n---').length}
PromptCount(cleanNewsData) == SplitLength(cleanNewsData, SplitSeparator)

\* cheerio.load(htmlContent): a string always loads. For undefined the
\* installed cheerio decides: 1.x throws "cheerio.load() expects a string",
\* 0.x loads an empty document. TRUE = throws.
LoadThrows(html) == IF html.def THEN {FALSE} ELSE {TRUE, FALSE}

\* ------------------------------------------------------------- responses
NoResponse ==
    [status |-> 0, isCached |-> "none", summary |-> Undefined,
     timestamp |-> Undefined, error |-> "none"]

\* res.json({ summary, timestamp, isCached }), status 200.
Success(summary, timestamp, isCached) ==
    [status |-> 200, isCached |-> IF isCached THEN "true" ELSE "false",
     summary |-> summary, timestamp |-> timestamp, error |-> "none"]

\* res.status(code).json({ error: message })
Failure(code, message) ==
    [status |-> code, isCached |-> "none", summary |-> Undefined,
     timestamp |-> Undefined, error |-> message]

ErrNoContent == "No clean news content found to summarize."
ErrGeneric == "Failed to generate AI summary. Check server logs."

NoContentResponse == Failure(400, ErrNoContent)
GenericErrorResponse == Failure(500, ErrGeneric)

\* ------------------------------------------------------------------ inputs
GoodCard1 == Card(<<"a">>, Str(<<"u">>), <<SP, "b", SP>>)
GoodCard2 == Card(<<"c">>, Undefined, <<"d">>)
NoTitleCard == Card(<<SP>>, Str(<<"u">>), <<"b">>)
NoSummaryCard == Card(<<"a">>, Str(<<"u">>), <<>>)

\* The request bodies the model sends.
Bodies ==
    { HtmlUndefined,
      Html(<<NoTitleCard, NoSummaryCard>>),
      Html(<<GoodCard1, NoTitleCard, GoodCard2>>) }

\* A text of n characters that ends in "e".
LongText(n) == [i \in 1..n |-> IF i = n THEN "e" ELSE "s"]

\* A card whose summary is one character over the cap, after white space.
LongCard == Card(<<"l">>, Str(<<"u">>), <<SP>> \o LongText(SummaryCap + 1))
\* A card whose summary has exactly as many characters as the cap.
CapCard == Card(<<"m">>, Undefined, LongText(SummaryCap))
\* A card whose summary holds a line that starts with three dashes.
DashCard == Card(<<"n">>, Str(<<>>), <<"f">> \o SplitSeparator \o <<"g">>)

CardKinds ==
    {GoodCard1, GoodCard2, NoTitleCard, NoSummaryCard, LongCard, CapCard, DashCard}

\* The documents sent to the extractor on its own: every sequence of at
\* most MaxCards cards.
ExtractBodies ==
    {Html(cards) : cards \in UNION {[1..n -> CardKinds] : n \in 0..MaxCards}}

\* response.text of a generateContent call that returned: the generated
\* text, or undefined when the response carries no text part.
ResponseTexts == { Str(<<"x">>), Str(<<"y", "z">>), Undefined }

\* What may lie at CACHE_FILE when the server starts.
InitialFiles ==
    { NoFile,
      FileOf(<<>>),
      FileOf(<<LB, KS, Q>>),
      FileOf(<<"null">>),
      FileOf(<<"7">>),
      FileOf(<<LB, KS, Q, "o", Q, CM, KL, ToString(CACHE_TTL_HOURS), RB>>),
      FileOf(<<LB, KS, Q, "o", Q, CM, KT, Q, "soon", Q, CM,
               KL, ToString(CACHE_TTL_HOURS), RB>>),
      FileOf(JSONstringify(CacheObject(Str(<<"o">>), 0))),
      [FileOf(JSONstringify(CacheObject(Str(<<"o">>), 0))) EXCEPT !.access = FALSE] }

\* ------------------------------------------------------------------- state
VARIABLES
    clock,      \* the current time, in hours
    apiKey,     \* TRUE iff process.env.GOOGLE_API_KEY is set
    file,       \* the state of CACHE_FILE
    req,        \* per request slot: the await its handler is suspended at, its locals
    out,        \* what the last step showed of a handler (NoOut if nothing)
    lastSave,   \* history: the saveCachedSummary that ran alone and still stands
    fresh,      \* history: the isCached:false answer being followed
    saved       \* history: the record the latest completed save wrote

vars == <<clock, apiKey, file, req, out, lastSave, fresh, saved>>

\* A handler that is not running. pc names the await the handler is
\* suspended at; html, cachedData, summary and cache are its locals.
\* alone: no other fs.writeFile has overlapped this request's so far.
\* later: the request arrived after the answer that fresh follows.
Idle ==
    [pc |-> "idle", html |-> HtmlUndefined, cachedData |-> Null,
     summary |-> Undefined, cache |-> Null, alone |-> FALSE, later |-> FALSE]

\* What a step showed of handler r: ended, the handler is over; html, the
\* body it was sent; cachedData, what getCachedSummary returned to it; res,
\* its response (NoResponse with rejected = TRUE when its promise rejected
\* with nothing sent); checked, this was the step that read the cache;
\* extracted, called, threw, opened, wrote: it has run the extractor,
\* called generateContent, seen it throw, opened CACHE_FILE for writing,
\* written it; cache, the object it saved; before, CACHE_FILE when the step
\* began; later, as in req; clean, the cleanNewsData the extractor returned
\* in this step; count, the article count put into the prompt built in this
\* step (0 when none was built).
NoOut ==
    [r |-> "none", ended |-> FALSE, html |-> HtmlUndefined, cachedData |-> Null,
     res |-> NoResponse, rejected |-> FALSE, checked |-> FALSE,
     extracted |-> FALSE, called |-> FALSE, threw |-> FALSE, opened |-> FALSE,
     wrote |-> FALSE, cache |-> Null, before |-> NoFile, later |-> FALSE,
     clean |-> <<>>, count |-> 0]

\* The part of out every step of handler r fills in the same way.
OutOf(r) ==
    [NoOut EXCEPT !.r = r, !.html = req[r].html, !.cachedData = req[r].cachedData,
                  !.before = file, !.later = req[r].later]

\* A completed save: the summary and timestamp of its record.
NoSave == [set |-> FALSE, summary |-> Undefined, timestamp |-> Undefined]
SaveOf(c) == [set |-> TRUE, summary |-> c.summary, timestamp |-> c.timestamp]

\* The first isCached:false answer of the run: state is "none" before it,
\* "open" for the CACHE_TTL_HOURS after its timestamp, "closed" from then
\* on. A run that starts "closed" follows no answer.
NoFresh == [state |-> "none", summary |-> Undefined, timestamp |-> Undefined]
FreshClosed == [NoFresh EXCEPT !.state = "closed"]
FreshOf(c) == [state |-> "open", summary |-> c.summary, timestamp |-> c.timestamp]

\* The instant a timestamp written by saveCachedSummary stands for.
InstantOf(timestamp) == CHOOSE n \in 0..MaxClock : timestamp = Str(<<toISOString(n)>>)

Start ==
    /\ clock = 0
    /\ apiKey \in BOOLEAN
    /\ file \in InitialFiles
    /\ req = [r \in Reqs |-> Idle]
    /\ out = NoOut
    /\ lastSave = NoSave

\* The record written by the latest save that has completed (rec.set is
\* FALSE when there is none); kept only in a run that starts with
\* on = TRUE.
NoSaved == [on |-> FALSE, rec |-> NoSave]

\* The record a save of an earlier run has left in CACHE_FILE, if any.
SavedBefore(f) ==
    LET c == JSONparse(f.data)
    IN  [on |-> TRUE,
         rec |-> IF f.exists /\ c.type = "object" /\ ~IsNaN(NewDate(c.timestamp))
                 THEN SaveOf(c) ELSE NoSave]

Init == Start /\ fresh = FreshClosed /\ saved = NoSaved

InitFollow == Start /\ fresh = NoFresh /\ saved = NoSaved

InitSaved == Start /\ fresh = FreshClosed /\ saved = SavedBefore(file)

\* ----------------------------------------------------------------- actions
\* app.post('/api/summarize-news'): a request arrives; the handler reads
\* req.body.htmlContent and awaits getCachedSummary().
Receive(r, body) ==
    /\ req[r].pc = "idle"
    /\ req' = [req EXCEPT ![r].pc = "getCached", ![r].html = body,
                          ![r].later = (fresh.state = "open")]
    /\ out' = NoOut
    /\ UNCHANGED <<clock, apiKey, file, lastSave, fresh, saved>>

\* Mutant: the extractor runs before the cache is looked at, so a body
\* without valid cards gets the 400 answer although a record is cached.
CacheHitAfterExtract(r) ==
    LET cachedData == getCachedSummary(file, clock)
        empty == ~req[r].html.def \/ extractCleanNewsData(req[r].html) = <<>>
    IN  /\ req[r].pc = "getCached"
        /\ cachedData # Null
        /\ req' = [req EXCEPT ![r] = Idle]
        /\ out' = [OutOf(r) EXCEPT
                       !.ended = TRUE, !.checked = TRUE, !.extracted = TRUE,
                       !.cachedData = IF empty THEN Null ELSE cachedData,
                       !.res = IF empty THEN NoContentResponse
                               ELSE Success(cachedData.summary,
                                            cachedData.timestamp, TRUE)]
        /\ UNCHANGED <<clock, apiKey, file, lastSave, fresh, saved>>

\* Mutant: the hit branch lacks its return, the handler goes on to
\* generateContent with the record in hand.
CacheHitFallsThrough(r) ==
    LET cachedData == getCachedSummary(file, clock)
    IN  /\ req[r].pc = "getCached"
        /\ cachedData # Null
        /\ req' = [req EXCEPT ![r].pc = "generate", ![r].cachedData = cachedData]
        /\ out' = [OutOf(r) EXCEPT !.checked = TRUE, !.cachedData = cachedData,
                                   !.extracted = TRUE, !.called = TRUE]
        /\ UNCHANGED <<clock, apiKey, file, lastSave, fresh, saved>>

\* Mutant: the cached answer is stamped with the time of the request.
CacheHitStampsNow(r) ==
    LET cachedData == getCachedSummary(file, clock)
    IN  /\ req[r].pc = "getCached"
        /\ cachedData # Null
        /\ req' = [req EXCEPT ![r] = Idle]
        /\ out' = [OutOf(r) EXCEPT !.ended = TRUE, !.checked = TRUE,
                                   !.cachedData = cachedData,
                                   !.res = Success(cachedData.summary,
                                                   Str(<<toISOString(clock)>>), TRUE)]
        /\ UNCHANGED <<clock, apiKey, file, lastSave, fresh, saved>>

\* getCachedSummary() returned a record: if (cachedData) return res.json(...).
CacheHit(r) ==
    LET cachedData == getCachedSummary(file, clock)
    IN  /\ req[r].pc = "getCached"
        /\ cachedData # Null
        /\ req' = [req EXCEPT ![r] = Idle]
        /\ out' = [OutOf(r) EXCEPT !.ended = TRUE, !.checked = TRUE,
                                   !.cachedData = cachedData,
                                   !.res = Success(cachedData.summary,
                                                   cachedData.timestamp, TRUE)]
        /\ UNCHANGED <<clock, apiKey, file, lastSave, fresh, saved>>

\* getCachedSummary() returned null and cheerio.load(htmlContent) throws:
\* the throw is outside the try block, so the handler's promise rejects and
\* no response is sent.
MissLoadThrows(r) ==
    /\ req[r].pc = "getCached"
    /\ getCachedSummary(file, clock) = Null
    /\ TRUE \in LoadThrows(req[r].html)
    /\ req' = [req EXCEPT ![r] = Idle]
    /\ out' = [OutOf(r) EXCEPT !.ended = TRUE, !.checked = TRUE,
                               !.extracted = TRUE, !.rejected = TRUE]
    /\ UNCHANGED <<clock, apiKey, file, lastSave, fresh, saved>>

\* getCachedSummary() returned null and the extractor found nothing:
\* if (!cleanNewsData) return res.status(400).json(...).
MissNoContent(r) ==
    /\ req[r].pc = "getCached"
    /\ getCachedSummary(file, clock) = Null
    /\ FALSE \in LoadThrows(req[r].html)
    /\ extractCleanNewsData(req[r].html) = <<>>
    /\ req' = [req EXCEPT ![r] = Idle]
    /\ out' = [OutOf(r) EXCEPT !.ended = TRUE, !.checked = TRUE,
                               !.extracted = TRUE, !.res = NoContentResponse]
    /\ UNCHANGED <<clock, apiKey, file, lastSave, fresh, saved>>

\* Mutant: a cache check that returns null unlinks CACHE_FILE.
MissGenerateUnlinksExpired(r) ==
    /\ req[r].pc = "getCached"
    /\ getCachedSummary(file, clock) = Null
    /\ FALSE \in LoadThrows(req[r].html)
    /\ extractCleanNewsData(req[r].html) # <<>>
    /\ file' = [file EXCEPT !.exists = FALSE, !.data = <<>>]
    /\ req' = [req EXCEPT ![r].pc = "generate"]
    /\ out' = [OutOf(r) EXCEPT
                   !.checked = TRUE, !.extracted = TRUE, !.called = TRUE,
                   !.clean = extractCleanNewsData(req[r].html),
                   !.count = PromptCount(extractCleanNewsData(req[r].html))]
    /\ UNCHANGED <<clock, apiKey, lastSave, fresh, saved>>

\* getCachedSummary() returned null and there is news to summarise: the
\* prompt is built and the handler awaits ai.models.generateContent(...).
MissGenerate(r) ==
    /\ req[r].pc = "getCached"
    /\ getCachedSummary(file, clock) = Null
    /\ FALSE \in LoadThrows(req[r].html)
    /\ extractCleanNewsData(req[r].html) # <<>>
    /\ req' = [req EXCEPT ![r].pc = "generate"]
    /\ out' = [OutOf(r) EXCEPT
                   !.checked = TRUE, !.extracted = TRUE, !.called = TRUE,
                   !.clean = extractCleanNewsData(req[r].html),
                   !.count = PromptCount(extractCleanNewsData(req[r].html))]
    /\ UNCHANGED <<clock, apiKey, file, lastSave, fresh, saved>>

\* Mutant: the catch block also saves an empty summary before answering.
GenerateThrowsAndSaves(r) ==
    /\ req[r].pc = "generate"
    /\ file.access
    /\ file' = WriteAtZero(OpenTrunc(file), JSONstringify(CacheObject(Str(<<>>), clock)))
    /\ req' = [req EXCEPT ![r] = Idle]
    /\ out' = [OutOf(r) EXCEPT !.ended = TRUE, !.extracted = TRUE, !.called = TRUE,
                               !.threw = TRUE, !.res = GenericErrorResponse]
    /\ UNCHANGED <<clock, apiKey, lastSave, fresh, saved>>

\* generateContent rejects (network or provider error; always so without a
\* credential): the catch block answers 500.
GenerateThrows(r) ==
    /\ req[r].pc = "generate"
    /\ req' = [req EXCEPT ![r] = Idle]
    /\ out' = [OutOf(r) EXCEPT !.ended = TRUE, !.extracted = TRUE, !.called = TRUE,
                               !.threw = TRUE, !.res = GenericErrorResponse]
    /\ UNCHANGED <<clock, apiKey, file, lastSave, fresh, saved>>

\* generateContent resolves: summary = response.text, saveCachedSummary
\* builds the cache object with the current time and awaits fs.writeFile.
GenerateReturns(r, text) ==
    /\ req[r].pc = "generate"
    /\ apiKey
    /\ req' = [req EXCEPT ![r].pc = "open", ![r].summary = text,
                          ![r].cache = CacheObject(text, clock)]
    /\ out' = NoOut
    /\ UNCHANGED <<clock, apiKey, file, lastSave, fresh, saved>>

\* fs.writeFile cannot open CACHE_FILE: saveCachedSummary rejects inside
\* the try block and the catch block answers 500.
WriteOpenFails(r) ==
    /\ req[r].pc = "open"
    /\ ~file.access
    /\ req' = [req EXCEPT ![r] = Idle]
    /\ out' = [OutOf(r) EXCEPT !.ended = TRUE, !.extracted = TRUE, !.called = TRUE,
                               !.res = GenericErrorResponse]
    /\ UNCHANGED <<clock, apiKey, file, lastSave, fresh, saved>>

\* fs.writeFile opens CACHE_FILE with flag 'w': the file is truncated.
WriteOpen(r) ==
    LET others == {q \in Reqs \ {r} : req[q].pc = "write"}
    IN  /\ req[r].pc = "open"
        /\ file.access
        /\ file' = OpenTrunc(file)
        /\ req' = [q \in Reqs |->
                     IF q = r
                     THEN [req[q] EXCEPT !.pc = "write", !.alone = (others = {})]
                     ELSE IF q \in others THEN [req[q] EXCEPT !.alone = FALSE]
                     ELSE req[q]]
        /\ out' = NoOut
        /\ lastSave' = NoSave
        /\ UNCHANGED <<clock, apiKey, fresh, saved>>

\* fs.writeFile writes the JSON text and resolves; saveCachedSummary
\* returns the cache object and the handler answers with the new summary.
WriteDone(r) ==
    LET c == req[r].cache
    IN  /\ req[r].pc = "write"
        /\ file' = WriteAtZero(file, JSONstringify(c))
        /\ req' = [req EXCEPT ![r] = Idle]
        /\ out' = [OutOf(r) EXCEPT !.ended = TRUE, !.extracted = TRUE, !.called = TRUE,
                                   !.opened = TRUE, !.wrote = TRUE, !.cache = c,
                                   !.res = Success(req[r].summary, c.timestamp, FALSE)]
        /\ lastSave' = IF req[r].alone THEN SaveOf(c) ELSE NoSave
        /\ fresh' = IF fresh.state # "none" THEN fresh
                    ELSE IF clock < InstantOf(c.timestamp) + CACHE_TTL_HOURS
                    THEN FreshOf(c) ELSE FreshClosed
        /\ saved' = IF saved.on THEN [saved EXCEPT !.rec = SaveOf(c)] ELSE saved
        /\ UNCHANGED <<clock, apiKey>>

\* An hour passes.
Tick ==
    /\ clock < MaxClock
    /\ clock' = clock + 1
    /\ out' = NoOut
    /\ fresh' = IF /\ fresh.state = "open"
                   /\ clock + 1 >= InstantOf(fresh.timestamp) + CACHE_TTL_HOURS
                THEN FreshClosed ELSE fresh
    /\ UNCHANGED <<apiKey, file, req, lastSave, saved>>

Next ==
    \/ \E r \in Reqs, body \in Bodies : Receive(r, body)
    \/ \E r \in Reqs : CacheHit(r)
    \/ \E r \in Reqs : MissLoadThrows(r)
    \/ \E r \in Reqs : MissNoContent(r)
    \/ \E r \in Reqs : MissGenerate(r)
    \/ \E r \in Reqs : GenerateThrows(r)
    \/ \E r \in Reqs, text \in ResponseTexts : GenerateReturns(r, text)
    \/ \E r \in Reqs : WriteOpenFails(r)
    \/ \E r \in Reqs : WriteOpen(r)
    \/ \E r \in Reqs : WriteDone(r)
    \/ Tick

\* The server; the history fresh follows no answer.
Spec == Init /\ [][Next]_vars

\* The server; the history fresh follows the first isCached:false answer.
SpecFollow == InitFollow /\ [][Next]_vars

\* The server; the history saved keeps the record last written.
SpecSaved == InitSaved /\ [][Next]_vars

\* A request that arrives when no other request is being handled.
ReceiveAlone(r, body) ==
    /\ \A q \in Reqs : req[q].pc = "idle"
    /\ Receive(r, body)

NextSerial ==
    \/ \E r \in Reqs, body \in Bodies : ReceiveAlone(r, body)
    \/ \E r \in Reqs : CacheHit(r)
    \/ \E r \in Reqs : MissLoadThrows(r)
    \/ \E r \in Reqs : MissNoContent(r)
    \/ \E r \in Reqs : MissGenerate(r)
    \/ \E r \in Reqs : GenerateThrows(r)
    \/ \E r \in Reqs, text \in ResponseTexts : GenerateReturns(r, text)
    \/ \E r \in Reqs : WriteOpenFails(r)
    \/ \E r \in Reqs : WriteOpen(r)
    \/ \E r \in Reqs : WriteDone(r)
    \/ Tick

\* The server when requests do not overlap: each one ends before the next
\* begins.
SpecSerial == Init /\ [][NextSerial]_vars

\* The extractor on its own: a server without a cache file whose external
\* service is down, so every request runs the extractor on its body and,
\* when there is news, builds the prompt.
InitExtract ==
    /\ clock = 0
    /\ apiKey = FALSE
    /\ file = NoFile
    /\ req = [r \in Reqs |-> Idle]
    /\ out = NoOut
    /\ lastSave = NoSave
    /\ fresh = FreshClosed
    /\ saved = NoSaved

NextExtract ==
    \/ \E body \in ExtractBodies : Receive("r1", body)
    \/ MissNoContent("r1")
    \/ MissGenerate("r1")
    \/ GenerateThrows("r1")

SpecExtract == InitExtract /\ [][NextExtract]_vars

\* ------------------------------------------------------------- properties
\* A string holds a character that is not white space.
HasText(s) == \E i \in DOMAIN s : ~IsSpace(s[i])

\* The body is a string none of whose news cards has both a title and a
\* summary.
NoValidCard(html) ==
    html.def /\ \A i \in DOMAIN html.cards :
                    ~(HasText(html.cards[i].title) /\ HasText(html.cards[i].summary))

\* CACHE_FILE holds a record getCachedSummary can date: it can be read, its
\* text is a JSON object, and the object's timestamp parses.
Datable(f) ==
    /\ ~ReadFails(f)
    /\ JSONparse(f.data).type = "object"
    /\ ~IsNaN(NewDate(JSONparse(f.data).timestamp))

\* C1: at every cache check that finds a datable record, getCachedSummary
\* returns that record exactly when the current time is strictly before the
\* record's timestamp plus its ttl hours, and null in every other case.
C1_HitIffBeforeExpiry ==
    (out.checked /\ Datable(file)) =>
        LET rec == JSONparse(file.data)
            valid == clock < NewDate(rec.timestamp) + rec.ttl
        IN  /\ valid => out.cachedData = rec
            /\ ~valid => out.cachedData = Null

\* A cache check at exactly timestamp + ttl found the record absent.
C1_Witness ==
    /\ out.checked /\ Datable(file)
    /\ clock = NewDate(JSONparse(file.data).timestamp) + JSONparse(file.data).ttl
    /\ out.cachedData = Null

C3_NoCardAlways400 ==
    (out.ended /\ NoValidCard(out.html))
    => (out.res.status = 400 /\ out.res.error # "none")

\* C3 as amended: every request whose cache check missed and whose
\* htmlContent is a string holding no valid news card is answered 400 with
\* an error field.
C3_NoCardOnMiss400 ==
    (out.checked /\ out.cachedData = Null /\ NoValidCard(out.html))
    => (out.ended /\ out.res.status = 400 /\ out.res.error # "none")

\* A request with cards that lack a title or a summary was answered 400.
C3_Witness ==
    /\ out.checked /\ out.cachedData = Null /\ NoValidCard(out.html)
    /\ out.html.cards # <<>>
    /\ out.res.status = 400

\* C4: a request whose generateContent call threw is answered 500 with the
\* generic error, has not opened or written CACHE_FILE, and the step that
\* answers it leaves CACHE_FILE as it was.
C4_ThrowAnswers500KeepsCache ==
    out.threw =>
        /\ out.ended /\ out.res = GenericErrorResponse
        /\ ~out.opened /\ ~out.wrote
        /\ file = out.before

\* generateContent threw while CACHE_FILE held an (expired) record.
C4_Witness ==
    /\ out.threw /\ out.res.status = 500
    /\ file.exists /\ JSONparse(file.data).type = "object"

\* C5 as claimed: a request without htmlContent ends with a 400 response
\* carrying an error field; its handler does not reject.
C5_MissingBody400 ==
    (out.ended /\ ~out.html.def)
    => (out.res.status = 400 /\ out.res.error # "none" /\ ~out.rejected)

C7_HitShortCircuits ==
    /\ (out.r # "none" /\ out.cachedData # Null) =>
           /\ out.ended /\ out.checked
           /\ out.res = Success(out.cachedData.summary, out.cachedData.timestamp, TRUE)
           /\ ~out.extracted /\ ~out.called /\ ~out.opened /\ ~out.wrote
           /\ file = out.before
    /\ (out.extracted \/ out.called) => out.cachedData = Null
    /\ \A r \in Reqs : req[r].pc \in {"generate", "open", "write"} =>
                           req[r].cachedData = Null

\* A request with valid news cards was answered from the cache.
C7_Witness ==
    /\ out.ended /\ out.cachedData # Null
    /\ out.html.def /\ ~NoValidCard(out.html)
    /\ out.res.isCached = "true"

\* The text under a write was empty or a record with a summary string.
BeforeHeldText ==
    \/ out.before.data = <<>>
    \/ /\ JSONparse(out.before.data).type = "object"
       /\ JSONparse(out.before.data).summary.def

\* C8 as claimed: when a write to CACHE_FILE completes and no other write
\* is in progress, the file holds exactly the record of that write (both
\* records carrying a summary string).
C8_LastWriteWinsWhole ==
    (out.wrote /\ out.cache.summary.def /\ BeforeHeldText
        /\ \A q \in Reqs : req[q].pc # "write")
    => file.data = JSONstringify(out.cache)

\* C9 as claimed: without the credential, a request that needs the external
\* service is answered 500 with a message that names the configuration
\* error (not the generic failure message).
C9_MissingKeyDescriptive500 ==
    (out.ended /\ out.called /\ ~apiKey)
    => (out.res.status = 500 /\ out.res.error \notin {"none", ErrGeneric})

\* CACHE_FILE is missing or unreadable, or its text is not JSON, not an
\* object, or an object whose timestamp is missing or does not parse.
Unusable(f) == ~Datable(f)

\* C10: a cache check that finds CACHE_FILE unusable gets null, raises
\* nothing and goes on as any miss does: to the extractor, then to the 400
\* answer for a body without valid cards and to generateContent otherwise.
C10_UnusableFileIsAMiss ==
    (out.checked /\ Unusable(file)) =>
        /\ out.cachedData = Null
        /\ out.extracted
        /\ out.res.status # 500 /\ out.res.isCached = "none"
        /\ out.rejected => ~out.html.def
        /\ NoValidCard(out.html) => out.res = NoContentResponse
        /\ (out.html.def /\ ~NoValidCard(out.html)) => (out.called /\ ~out.ended)

\* A request went on to generateContent over a record without a timestamp
\* that parses.
C10_Witness ==
    /\ out.checked /\ out.called /\ ~out.ended
    /\ ~ReadFails(file) /\ JSONparse(file.data).type = "object"
    /\ JSONparse(file.data).timestamp.def
    /\ IsNaN(NewDate(JSONparse(file.data).timestamp))

\* C11 as claimed: every request that ends has been given one response, a
\* success, a 400 or a 500, and its handler has not rejected with nothing
\* sent; a handler suspended at generateContent has made its one call.
C11_EveryEndOneResponse ==
    /\ out.ended => (~out.rejected /\ out.res.status \in {200, 400, 500})
    /\ (out.r # "none" /\ ~out.ended) => (out.called /\ req[out.r].pc = "generate")

\* A card whose title and summary both hold a character other than white
\* space.
QualifyingCard(card) == HasText(card.title) /\ HasText(card.summary)

\* A text without the white space around it.
Core(s) ==
    LET inked == {i \in DOMAIN s : ~IsSpace(s[i])}
    IN  IF inked = {} THEN <<>>
        ELSE SubSeq(s, CHOOSE i \in inked : \A j \in inked : i <= j,
                       CHOOSE i \in inked : \A j \in inked : j <= i)

\* The block expected for the n-th qualifying card.
ExpectedBlock(card, n) ==
    LET summary == Core(card.summary)
        shown == IF Len(summary) <= 300 THEN summary
                 ELSE [i \in 1..300 |-> summary[i]]
        url == IF card.href.def /\ card.href.s # <<>> THEN card.href.s ELSE <<"#">>
    IN  <<"[ARTICLE ", ToString(n), "]", NL, INDENT, "Title: ">> \o Core(card.title)
        \o <<NL, INDENT, "URL: ">> \o url
        \o <<NL, INDENT, "Summary: ">> \o shown
        \o <<NL, INDENT, "-", "-", "-">>

\* The blocks expected for cards n.. of a sequence of qualifying cards,
\* joined by line feeds.
RECURSIVE ExpectedFrom(_, _)
ExpectedFrom(cards, n) ==
    IF n > Len(cards) THEN <<>>
    ELSE IF n = Len(cards) THEN ExpectedBlock(cards[n], n)
    ELSE ExpectedBlock(cards[n], n) \o <<NL>> \o ExpectedFrom(cards, n + 1)

C13_NoTextIsFailure ==
    /\ out.res.status = 200 => (out.res.summary.def /\ out.res.summary.s # <<>>)
    /\ out.wrote => out.cache.summary.def
    /\ Datable(file) => JSONparse(file.data).summary.def

\* C14 as claimed: when a prompt is built on a cache miss, the article
\* count it embeds is the number of qualifying cards, that is of blocks the
\* extractor produced.
C14_PromptCountIsBlocks ==
    (out.checked /\ out.called /\ out.html.def) =>
        out.count = Len(SelectSeq(out.html.cards, QualifyingCard))

\* C15 as claimed: a handler step other than the save leaves CACHE_FILE as
\* it was (so do requests ending in a hit, a 400 or a 500); only a request
\* that saw a miss and extracted an article gets to save; and when a save
\* completes, CACHE_FILE holds the record of that save: its summary and the
\* timestamp it took.
C15_RecordChangesOnlyBySave ==
    /\ (out.r # "none" /\ ~out.wrote) => file = out.before
    /\ \A r \in Reqs : req[r].pc \in {"open", "write"} =>
           /\ req[r].cachedData = Null
           /\ extractCleanNewsData(req[r].html) # <<>>
    /\ out.wrote => (~ReadFails(file) /\ JSONparse(file.data) = out.cache)

\* C16: a step in which a handler's getCachedSummary returns leaves
\* CACHE_FILE exactly as it was, whether the record in it is valid, expired
\* or malformed, and reports what getCachedSummary computes; and over any
\* step that leaves CACHE_FILE alone (no save), a datable record that
\* getCachedSummary reports absent is still in the file and is reported
\* absent after the step too, the clock never going back.
C16_GetCachedLeavesRecord ==
    [][ /\ out'.checked =>
               /\ file' = file
               /\ out'.cachedData = getCachedSummary(file, clock)
        /\ clock' >= clock
        /\ (file' = file /\ Datable(file) /\ getCachedSummary(file, clock) = Null)
               => (Datable(file') /\ getCachedSummary(file', clock') = Null)
      ]_vars

\* A cache check after the hour of expiry found the expired record absent
\* and left it in the file.
C16_Witness ==
    /\ out.checked /\ out.cachedData = Null
    /\ Datable(file) /\ file = out.before
    /\ clock > NewDate(JSONparse(file.data).timestamp) + CACHE_TTL_HOURS

\* C17: every response with isCached: true carries the summary and the
\* timestamp of one record, the one written by the latest save that has
\* completed (in this run, or left in CACHE_FILE by an earlier run), and
\* the cache check that produced it happened less than 4 hours after that
\* timestamp; so no cached response pairs the summary of one write with the
\* timestamp of another or shows a partly written record.
C17_CachedAnswerIsOneRecord ==
    out.res.isCached = "true" =>
        /\ out.checked
        /\ saved.rec = SaveOf(out.res)
        /\ clock < InstantOf(out.res.timestamp) + 4

\* A cached answer was served from a record written by a save that another
\* save overlapped, at an hour later than the record's.
C17_Witness ==
    /\ out.res.isCached = "true" /\ out.checked
    /\ ~lastSave.set
    /\ out.res.summary = Str(<<"y", "z">>)
    /\ out.res.timestamp # Str(<<toISOString(clock)>>)

\* C18: when requests do not overlap, after a save has written a record
\* with timestamp t (which takes a readable, writable CACHE_FILE), a request
\* goes on to call generateContent only at t + 4 hours or later, and the
\* record the next save is about to write has a timestamp at least 4 hours
\* after t.
C18_CacheGatesExternalCalls ==
    /\ (out.checked /\ out.called /\ lastSave.set) =>
           clock >= InstantOf(lastSave.timestamp) + 4
    /\ \A r \in Reqs : (req[r].pc = "open" /\ lastSave.set) =>
           InstantOf(req[r].cache.timestamp) >= InstantOf(lastSave.timestamp) + 4

\* A second external call has returned, 4 hours or more after the record
\* written by the first, and its record is about to be saved.
C18_Witness ==
    /\ lastSave.set /\ file.data = JSONstringify([type |-> "object",
                                        summary |-> lastSave.summary,
                                        timestamp |-> lastSave.timestamp,
                                        ttl |-> CACHE_TTL_HOURS])
    /\ \E r \in Reqs :
          /\ req[r].pc = "open"
          /\ InstantOf(req[r].cache.timestamp) >= InstantOf(lastSave.timestamp) + 4
====
